---- MODULE Spec2Model ----
(***************************************************************************)
(* Model of the completion engine of Group-Theory-Sandbox (src/src/group.py *)
(* and src/src/util.py).  Words are strings over the letters; the dict      *)
(* reps_to_sinks is a function; iteration over a Python set is a           *)
(* nondeterministic choice of the next element.                            *)
(***************************************************************************)
EXTENDS Integers, Sequences, FiniteSets, TLC

\* ------------------------------------------------------------------ bounds

\* Longest word of a generated input relation.
MaxLen == 1

\* Largest sink_cap tried with the generated input relations.
MaxCap == 2

\* ------------------------------------------------------------- characters

\* A string of this module holds the characters of code points up to 255.

\* The letters of [a-zA-Z], in code point order.
AsciiLetters == "ABCDEFGHIJKLMNOPQRSTUVWXYZabcdefghijklmnopqrstuvwxyz"

\* The characters c with c.isalpha(), in code point order (str comparison
\* compares code points).
Letters ==
    AsciiLetters \o "ªµºÀÁÂÃÄÅÆÇÈÉÊËÌÍÎÏÐÑÒÓÔÕÖØÙÚÛÜÝÞßàáâãäåæçèéêëìíîïðñòóôõöøùúûüýþÿ"

\* The lowercase letters that have a capital among the characters above, and
\* their capitals in the same order.
LowerCased == "abcdefghijklmnopqrstuvwxyzàáâãäåæçèéêëìíîïðñòóôõöøùúûüýþ"
UpperCased == "ABCDEFGHIJKLMNOPQRSTUVWXYZÀÁÂÃÄÅÆÇÈÉÊËÌÍÎÏÐÑÒÓÔÕÖØÙÚÛÜÝÞ"

\* The other lowercase letters: ª and º are their own capitals, the capital
\* of ß is "Ss", and those of µ and ÿ have code points above 255.
OtherLower == "ªµºßÿ"

CharAt(s, i) == SubSeq(s, i, i)

\* Whether the character c occurs in s ("E" in s), and where it occurs first.
Contains(s, c) == \E i \in 1..Len(s) : CharAt(s, i) = c
IndexIn(s, c) == CHOOSE i \in 1..Len(s) : CharAt(s, i) = c

CharOrd(c) == IndexIn(Letters, c)

\* str.islower for one character
islower(c) == Contains(LowerCased, c) \/ Contains(OtherLower, c)

\* str.__lt__
StrLess(a, b) ==
    \E i \in 1..(Len(b)) :
        /\ i <= Len(a) + 1
        /\ SubSeq(a, 1, i - 1) = SubSeq(b, 1, i - 1)
        /\ \/ i = Len(a) + 1
           \/ i <= Len(a) /\ CharOrd(CharAt(a, i)) < CharOrd(CharAt(b, i))

\* The capitals of µ and ÿ, GREEK CAPITAL LETTER MU and LATIN CAPITAL LETTER
\* Y WITH DIAERESIS: each is one character with a code point above 255, which
\* a string here cannot hold, and is written as its code point.  Neither
\* occurs in a word here, so neither is in a set of generator characters.
CapitalMu == "U+039C"
CapitalYDiaeresis == "U+0178"

\* util.anti_cap: the assertion on len(s) is raised for a string that is not
\* one character; the result is s.capitalize() of a lowercase character and
\* s.lower() of any other.
anti_cap(s) ==
    IF Len(s) # 1 THEN [raised |-> TRUE, result |-> ""]
    ELSE [raised |-> FALSE,
          result |->
            IF Contains(LowerCased, s) THEN CharAt(UpperCased, IndexIn(LowerCased, s))
            ELSE IF Contains(UpperCased, s) THEN CharAt(LowerCased, IndexIn(UpperCased, s))
            ELSE IF s = "ß" THEN "Ss"
            ELSE IF s = "µ" THEN CapitalMu
            ELSE IF s = "ÿ" THEN CapitalYDiaeresis
            ELSE s]

\* The characters of a collection of words: set("".join(reps))
CharsOf(reps) == UNION { { CharAt(reps[k], i) : i \in 1..Len(reps[k]) } : k \in 1..Len(reps) }

\* ------------------------------------------------------------ sort keys

dict_sort_key_len(s) == <<Len(s), s>>

\* The key of printing, as a mutation of the key of integration: the value
\* alone, whatever the length (the constant first component leaves the
\* comparison to the value).
dict_sort_key_default(s) == <<0, s>>

INTEGRATE_KEY(s) == dict_sort_key_len(s)

\* Tuple comparison of two (int, str) keys.
KeyLess(k1, k2) == k1[1] < k2[1] \/ (k1[1] = k2[1] /\ StrLess(k1[2], k2[2]))

\* min(S, key=INTEGRATE_KEY)
MinByKey(S) == CHOOSE m \in S : \A w \in S : ~KeyLess(INTEGRATE_KEY(w), INTEGRATE_KEY(m))

\* sorted(S, key=INTEGRATE_KEY)
RECURSIVE SortedByKey(_)
SortedByKey(S) ==
    IF S = {} THEN <<>>
    ELSE LET m == MinByKey(S) IN <<m>> \o SortedByKey(S \ {m})

\* ------------------------------------------------------- word primitives

Min2(a, b) == IF a < b THEN a ELSE b

\* s[-k:]  (for k = 0 this is the whole string)
LastChars(s, k) == IF k = 0 THEN s ELSE SubSeq(s, Len(s) - k + 1, Len(s))

\* s[:k]
FirstChars(s, k) == SubSeq(s, 1, k)

\* s[k:]
DropChars(s, k) == SubSeq(s, k + 1, Len(s))

\* A mutation of generate_contractions: the longest overlap is not tried.
generate_contractions_short(s1, s2) ==
    LET max_len == Min2(Len(s1), Len(s2)) IN
    UNION { (IF LastChars(s1, overlap) = FirstChars(s2, overlap)
                THEN { s1 \o DropChars(s2, overlap) } ELSE {})
            \cup
            (IF LastChars(s2, overlap) = FirstChars(s1, overlap)
                THEN { s2 \o DropChars(s1, overlap) } ELSE {})
          : overlap \in 0..(max_len - 2) }

\* util.generate_contractions
generate_contractions(s1, s2) ==
    LET max_len == Min2(Len(s1), Len(s2)) IN
    UNION { (IF LastChars(s1, overlap) = FirstChars(s2, overlap)
                THEN { s1 \o DropChars(s2, overlap) } ELSE {})
            \cup
            (IF LastChars(s2, overlap) = FirstChars(s1, overlap)
                THEN { s2 \o DropChars(s1, overlap) } ELSE {})
          : overlap \in 0..(max_len - 1) }

\* s.find(sub, start): the least index from start on at which sub begins in
\* s, or -1
RECURSIVE find(_, _, _)
find(s, sub, start) ==
    IF start + Len(sub) > Len(s) THEN -1
    ELSE IF SubSeq(s, start + 1, start + Len(sub)) = sub THEN start
    ELSE find(s, sub, start + 1)

\* A mutation of the loop of apply_rule_once: the search goes on behind the
\* occurrence found (start = index + len(unreduced)), not one character on.
RECURSIVE RuleLoopBehind(_, _, _, _)
RuleLoopBehind(unreduced, reduced, s, start) ==
    LET index == find(s, unreduced, start) IN
    IF index = -1 THEN {}
    ELSE { FirstChars(s, index) \o reduced \o DropChars(s, index + Len(unreduced)) }
         \cup RuleLoopBehind(unreduced, reduced, s,
                             index + (IF unreduced = "" THEN 1 ELSE Len(unreduced)))

\* The loop of apply_rule_once: while (index := s.find(unreduced, start)) != -1
RECURSIVE RuleLoop(_, _, _, _)
RuleLoop(unreduced, reduced, s, start) ==
    LET index == find(s, unreduced, start) IN
    IF index = -1 THEN {}
    ELSE { FirstChars(s, index) \o reduced \o DropChars(s, index + Len(unreduced)) }
         \cup RuleLoop(unreduced, reduced, s, index + 1)

\* util.apply_rule_once
apply_rule_once(unreduced, reduced, s) == RuleLoop(unreduced, reduced, s, 0)

\* The first loop of get_most_shaveds: the longest common prefix within limit.
RECURSIVE OverlapLeft(_, _, _, _)
OverlapLeft(s1, s2, limit, k) ==
    IF k < limit /\ CharAt(s1, k + 1) = CharAt(s2, k + 1)
    THEN OverlapLeft(s1, s2, limit, k + 1) ELSE k

\* The second loop: the longest common suffix within limit.
RECURSIVE OverlapRight(_, _, _, _)
OverlapRight(s1, s2, limit, k) ==
    IF k < limit /\ CharAt(s1, Len(s1) - k) = CharAt(s2, Len(s2) - k)
    THEN OverlapRight(s1, s2, limit, k + 1) ELSE k

\* s[l : len(s) - r]
Shave(s, l, r) == SubSeq(s, l + 1, Len(s) - r)

\* util.get_most_shaveds
get_most_shaveds(s1, s2) ==
    LET limit == Min2(Len(s1), Len(s2))
        ol1 == OverlapLeft(s1, s2, limit, 0)
        or1 == OverlapRight(s1, s2, limit - ol1, 0)
        most_shaved_left_first == << Shave(s1, ol1, or1), Shave(s2, ol1, or1) >>
        or2 == OverlapRight(s1, s2, limit, 0)
        ol2 == OverlapLeft(s1, s2, limit - or2, 0)
        most_shaved_right_first == << Shave(s1, ol2, or2), Shave(s2, ol2, or2) >>
    IN  IF Len(most_shaved_left_first) > 0 /\ Len(most_shaved_left_first[2]) > 0
        THEN { most_shaved_left_first }
        ELSE { most_shaved_left_first, most_shaved_right_first }

\* ---------------------------------------------------------------- notation

\* The digits; those of a power are read in base ten.
Digits == "0123456789"

\* str.isalpha for one character
isalpha(c) == Contains(Letters, c)

\* [a-zA-Z] for one character
isasciialpha(c) == Contains(AsciiLetters, c)

\* \d for one character: of the characters a string here can hold, the
\* decimal digits are those of Digits.
isdigit(c) == Contains(Digits, c)

DigitValue(c) == IndexIn(Digits, c) - 1

\* s.replace(c, "")
RECURSIVE Without(_, _)
Without(s, c) ==
    IF s = "" THEN ""
    ELSE (IF CharAt(s, 1) = c THEN "" ELSE CharAt(s, 1)) \o Without(DropChars(s, 1), c)

\* The length of the longest run of digits of s that starts at index i (\d+).
RECURSIVE DigitRun(_, _)
DigitRun(s, i) ==
    IF i <= Len(s) /\ isdigit(CharAt(s, i)) THEN 1 + DigitRun(s, i + 1) ELSE 0

\* int(digits)
RECURSIVE ToInt(_)
ToInt(digits) ==
    IF digits = "" THEN 0
    ELSE 10 * ToInt(FirstChars(digits, Len(digits) - 1))
         + DigitValue(CharAt(digits, Len(digits)))

\* c * n
RECURSIVE Repeat(_, _)
Repeat(c, n) == IF n = 0 THEN "" ELSE c \o Repeat(c, n - 1)

\* re.sub(r"([a-zA-Z])(\d+)", ...) from index i on: the matches are taken from
\* left to right, each a letter with all the digits that follow it.
RECURSIVE SubPowers(_, _)
SubPowers(s, i) ==
    IF i > Len(s) THEN ""
    ELSE LET c == CharAt(s, i)
             run_len == DigitRun(s, i + 1)
         IN  IF isasciialpha(c) /\ run_len > 0
             THEN Repeat(c, ToInt(SubSeq(s, i + 1, i + run_len)))
                  \o SubPowers(s, i + 1 + run_len)
             ELSE c \o SubPowers(s, i + 1)

\* util.expand_notation: whether SyntaxError is raised, and the expanded word
\* that is returned otherwise.
expand_notation(s) ==
    IF Contains(s, "E") THEN [raised |-> TRUE, expanded |-> ""]
    ELSE LET expanded == SubPowers(Without(s, "e"), 1) IN
         IF expanded # "" /\ \E i \in 1..Len(expanded) : ~isalpha(CharAt(expanded, i))
         THEN [raised |-> TRUE, expanded |-> ""]
         ELSE [raised |-> FALSE, expanded |-> expanded]

\* ----------------------------------------------------- reachability search

\* find_all_reachable_representations.  The search adds a word to
\* all_equivalent_reps before it expands it and adds the sink of a known word
\* without expanding it, so its result can depend on the order in which the
\* sets (prime_reductibles, the results of apply_rule_once) are iterated:
\* each operator below yields the set of the results of all iteration orders.
\* Words already in all_equivalent_reps and rules that do not occur in rep
\* are skipped by the loops with no effect, in whatever order they come.
RECURSIVE ReachSet(_, _, _, _)
RECURSIVE ReachRules(_, _, _, _, _)

\* The loop body for one rep that is not in all_equivalent_reps.
ReachRep(rep, reps_to_sinks, prime_reductibles, all_equivalent_reps) ==
    IF rep \in DOMAIN reps_to_sinks
    THEN { all_equivalent_reps \cup {rep, reps_to_sinks[rep]} }
    ELSE ReachRules({ left \in prime_reductibles :
                        apply_rule_once(left, reps_to_sinks[left], rep) # {} },
                    rep, reps_to_sinks, prime_reductibles,
                    all_equivalent_reps \cup {rep})

\* for left in prime_reductibles: the recursive call on reps_after_application
ReachRules(lefts, rep, reps_to_sinks, prime_reductibles, all_equivalent_reps) ==
    IF lefts = {} THEN { all_equivalent_reps }
    ELSE UNION { UNION { ReachRules(lefts \ {left}, rep, reps_to_sinks, prime_reductibles, a) :
                         a \in ReachSet(apply_rule_once(left, reps_to_sinks[left], rep),
                                        reps_to_sinks, prime_reductibles, all_equivalent_reps) } :
                 left \in lefts }

\* for rep in reps, reps a set (a recursive call)
ReachSet(reps, reps_to_sinks, prime_reductibles, all_equivalent_reps) ==
    LET todo == reps \ all_equivalent_reps IN
    IF todo = {} THEN { all_equivalent_reps }
    ELSE UNION { UNION { ReachSet(todo \ {rep}, reps_to_sinks, prime_reductibles, a) :
                         a \in ReachRep(rep, reps_to_sinks, prime_reductibles, all_equivalent_reps) } :
                 rep \in todo }

\* for rep in reps, reps a list or tuple (the top-level call): in order from k
RECURSIVE ReachSeq(_, _, _, _, _)
ReachSeq(reps, k, reps_to_sinks, prime_reductibles, all_equivalent_reps) ==
    IF k > Len(reps) THEN { all_equivalent_reps }
    ELSE UNION { ReachSeq(reps, k + 1, reps_to_sinks, prime_reductibles, a) :
                 a \in (IF reps[k] \in all_equivalent_reps THEN { all_equivalent_reps }
                        ELSE ReachRep(reps[k], reps_to_sinks, prime_reductibles,
                                      all_equivalent_reps)) }

\* The possible results of find_all_reachable_representations(reps, ...).
find_all_reachable_representations(reps, reps_to_sinks, prime_reductibles) ==
    ReachSeq(reps, 1, reps_to_sinks, prime_reductibles, {})

\* -------------------------------------------------------- equivalence store
\* A group object g is a record of the fields reps_to_sinks, sinks,
\* prime_reductibles and sink_cap.  An operation yields the set of the objects it can leave.

\* Group._should_be_prime_reductible: the possible answers.
should_be_prime_reductible(g, rep) ==
    LET other_prime_reductibles == g.prime_reductibles \ {rep}
        allowed_references == [ prime \in other_prime_reductibles |-> g.reps_to_sinks[prime] ]
    IN  { g.reps_to_sinks[rep] \notin reachable_representations_from_rep :
            reachable_representations_from_rep \in
                find_all_reachable_representations(<<rep>>, allowed_references,
                                                   other_prime_reductibles) }

\* The loop of _process_as_potential_prime_reductible over the established
\* primes still to test; those not larger than rep are skipped.
RECURSIVE RetestEstablished(_, _, _)
RetestEstablished(g, rep, todo) ==
    LET larger == { e \in todo : KeyLess(INTEGRATE_KEY(rep), INTEGRATE_KEY(e)) } IN
    IF larger = {} THEN { g }
    ELSE UNION { UNION { RetestEstablished(
                            IF b THEN g
                            ELSE [g EXCEPT !.prime_reductibles = @ \ {established_prime}],
                            rep, larger \ {established_prime}) :
                         b \in should_be_prime_reductible(g, established_prime) } :
                 established_prime \in larger }

\* Group._process_as_potential_prime_reductible
process_as_potential_prime_reductible(g, rep) ==
    UNION { IF ~b THEN { g }
            ELSE LET g1 == [g EXCEPT !.prime_reductibles = @ \cup {rep}]
                 IN  RetestEstablished(g1, rep, g1.prime_reductibles) :
            b \in should_be_prime_reductible(g, rep) }

\* The loop of _set_for_entries_with_value over the items of the dict.  The
\* dict is iterated in the insertion order of its keys, which is the order in
\* which earlier loops over sets happened to insert them: the loop is taken
\* over the keys that refer to old_value in any order, which includes every
\* insertion order.  The keys that refer to another value are skipped.
RECURSIVE RepointEntries(_, _, _)
RepointEntries(g, todo, new_value) ==
    IF todo = {} THEN { g }
    ELSE UNION { UNION { RepointEntries(g2, todo \ {unreduced}, new_value) :
                         g2 \in process_as_potential_prime_reductible(
                                   [g EXCEPT !.reps_to_sinks[unreduced] = new_value],
                                   unreduced) } :
                 unreduced \in todo }

\* A mutation of _set_for_entries_with_value: old_value is left among the sinks.
set_for_entries_keeping_old_sink(g, old_value, new_value) ==
    IF old_value = new_value \/ old_value \notin g.sinks THEN { g }
    ELSE { [g2 EXCEPT !.sinks = @ \cup {new_value}] :
           g2 \in RepointEntries(g,
                                 { r \in DOMAIN g.reps_to_sinks : g.reps_to_sinks[r] = old_value },
                                 new_value) }

\* Group._set_for_entries_with_value
set_for_entries_with_value(g, old_value, new_value) ==
    IF old_value = new_value \/ old_value \notin g.sinks THEN { g }
    ELSE { [g2 EXCEPT !.sinks = (@ \ {old_value}) \cup {new_value}] :
           g2 \in RepointEntries(g,
                                 { r \in DOMAIN g.reps_to_sinks : g.reps_to_sinks[r] = old_value },
                                 new_value) }

\* A mutation of _set_entry: new_reduced is added to the sinks only when it is
\* the new word itself.
set_entry_sink_of_itself_only(g, rep, new_reduced) ==
    IF rep \in DOMAIN g.reps_to_sinks
    THEN LET known_reduced == g.reps_to_sinks[rep] IN
         IF new_reduced = known_reduced THEN { [g |-> g, raised |-> FALSE] }
         ELSE LET sorted == SortedByKey({known_reduced, new_reduced})
              IN  { [g |-> g2, raised |-> FALSE] :
                    g2 \in set_for_entries_with_value(g, sorted[2], sorted[1]) }
    ELSE LET g1 == [g EXCEPT
                      !.reps_to_sinks = [ r \in DOMAIN @ \cup {rep} |->
                                            IF r = rep THEN new_reduced ELSE @[r] ]]
             g3 == [g1 EXCEPT !.sinks = @ \cup {new_reduced}]
         IN  IF rep = new_reduced
             THEN { [g |-> g3, raised |-> Cardinality(g3.sinks) > g3.sink_cap] }
             ELSE { [g |-> g2, raised |-> FALSE] :
                    g2 \in process_as_potential_prime_reductible(g1, rep) }

\* Group._set_entry: the possible outcomes, each the object left and whether
\* MemoryError was raised.
set_entry(g, rep, new_reduced) ==
    IF rep \in DOMAIN g.reps_to_sinks
    THEN LET known_reduced == g.reps_to_sinks[rep] IN
         IF new_reduced = known_reduced THEN { [g |-> g, raised |-> FALSE] }
         ELSE LET sorted == SortedByKey({known_reduced, new_reduced})
                  most_reduced == sorted[1]
                  less_reduced == sorted[2]
              IN  { [g |-> g2, raised |-> FALSE] :
                    g2 \in set_for_entries_with_value(g, less_reduced, most_reduced) }
    ELSE LET g1 == [g EXCEPT
                      !.reps_to_sinks = [ r \in DOMAIN @ \cup {rep} |->
                                            IF r = rep THEN new_reduced ELSE @[r] ],
                      !.sinks = @ \cup {new_reduced}]
         IN  IF rep = new_reduced
             THEN { [g |-> g1, raised |-> Cardinality(g1.sinks) > g1.sink_cap] }
             ELSE { [g |-> g2, raised |-> FALSE] :
                    g2 \in process_as_potential_prime_reductible(g1, rep) }

\* The (sink, generator_char) pairs without an entry; the first one found by
\* _determine_first_element_with_incomplete_image is any of them.
IncompleteImages(sinks_, generator_chars_, reps_to_sinks_) ==
    { sg \in sinks_ \X generator_chars_ : (sg[1] \o sg[2]) \notin DOMAIN reps_to_sinks_ }

\* ------------------------------------------------------------------ inputs

\* sink_cap: int = 50
DefaultSinkCap == 50

\* The words over g and its inverse G of length at most n.
RECURSIVE WordsUpTo(_)
WordsUpTo(n) ==
    IF n = 0 THEN { "" }
    ELSE LET shorter == WordsUpTo(n - 1)
         IN  shorter \cup { w \o c : w \in shorter, c \in {"g", "G"} }

\* The generated relations: the lists of one word or of two distinct words of
\* length at most MaxLen, in either order.
GeneratedRelations ==
    { << a >> : a \in WordsUpTo(MaxLen) }
    \cup { << ab[1], ab[2] >> : ab \in { x \in WordsUpTo(MaxLen) \X WordsUpTo(MaxLen) :
                                            x[1] # x[2] } }

\* Scenario A of the specification: g^3 = e
ScenarioA == << <<"ggg", "">> >>

\* Scenario B: g^2 = e, h^2 = e, (gh)^2 = e
ScenarioB == << <<"gg", "">>, <<"hh", "">>, <<"ghgh", "">> >>

\* Scenario C: no relation at all
ScenarioC == << >>

\* One generator and no relation: an infinite group
FreeGenerator == << <<"g">> >>

\* The cap of the specification's cap-enforcement example.
SmallCap == 3

\* g, its inverse and the square of its inverse are the same element: the
\* most reduced word of this relation is itself reduced while the relation is
\* being integrated.
MergingRelation == << <<"G", "g", "GG">> >>

\* The square of g is its inverse, and then g is the identity: the square
\* becomes a prime reductible before the generator does.
SquareThenGenerator == << <<"G", "gg">>, <<"g", "">> >>

\* The arguments of Group.__init__ that are tried.
Inputs ==
    { [initial_reps_elements |-> << r >>, sink_cap |-> c, evaluate |-> e] :
        r \in GeneratedRelations, c \in 1..MaxCap, e \in BOOLEAN }
    \cup
    { [initial_reps_elements |-> rs, sink_cap |-> DefaultSinkCap, evaluate |-> TRUE] :
        rs \in { ScenarioA, ScenarioB, ScenarioC, MergingRelation } }
    \cup
    { [initial_reps_elements |-> MergingRelation, sink_cap |-> 1, evaluate |-> TRUE] }
    \cup
    { [initial_reps_elements |-> FreeGenerator, sink_cap |-> SmallCap, evaluate |-> TRUE] }

\* ------------------------------------------------------------------- state

VARIABLES
    initial_reps_elements,    \* argument of __init__: the relations
    sink_cap,                 \* self.sink_cap
    evaluate,                 \* argument of __init__
    reps_to_sinks,            \* self.reps_to_sinks
    sinks,                    \* self.sinks
    prime_reductibles,        \* self.prime_reductibles
    generator_chars,          \* self.generator_chars
    pc,                       \* where __init__ is
    rel_idx,                  \* index of the next relation of initial_reps_elements
    stack,                    \* the active _integrate calls, innermost last
    sorted_prime_reductibles, \* the tuple of integrate_combined_prime_reductibles
    pair,                     \* <<i, j>>: indices of s1 and s2 in that tuple
    contractions,             \* contractions of s1 and s2 still to integrate
    run,                      \* 1 for the first construction, 2 for the re-run
    first_result,             \* what the first construction ended with
    call_reps,                \* the arguments of Group.__call__, << >> before it
    util_fn,                  \* the function of util.py that has been applied
    util_args,                \* its arguments
    util_out,                 \* what it returned
    combine_calls,            \* calls of integrate_combined_prime_reductibles made
                              \* on the constructed object
    before_call,              \* the object when the latest of them started
    fill_calls                \* calls of fill_in_gaps made on the constructed object

vars == << initial_reps_elements, sink_cap, evaluate, reps_to_sinks, sinks,
           prime_reductibles, generator_chars, pc, rel_idx, stack,
           sorted_prime_reductibles, pair, contractions, run, first_result,
           call_reps, util_fn, util_args, util_out, combine_calls, before_call,
           fill_calls >>

inputVars == << initial_reps_elements, sink_cap, evaluate >>
storeVars == << reps_to_sinks, sinks, prime_reductibles >>
combineVars == << sorted_prime_reductibles, pair, contractions >>
runVars == << run, first_result, combine_calls, before_call, fill_calls >>
utilVars == << util_fn, util_args, util_out >>

\* The group object as a record.
Self ==
    [ reps_to_sinks |-> reps_to_sinks, sinks |-> sinks,
      prime_reductibles |-> prime_reductibles, sink_cap |-> sink_cap ]

\* The store variables become those of the object g.
StoreBecomes(g) ==
    /\ reps_to_sinks' = g.reps_to_sinks
    /\ sinks' = g.sinks
    /\ prime_reductibles' = g.prime_reductibles

EmptyDict == [ r \in {} |-> "" ]

\* The frame of a call _integrate(expanded_reps) at its first statement, the
\* call of _update_generator_chars.
CallFrame(expanded_reps) ==
    [ kind |-> "update_generator_chars", expanded_reps |-> expanded_reps,
      chars |-> CharsOf(expanded_reps), all_relevant_equivalent_reps |-> {},
      todo |-> {}, most_reduced |-> "", rep |-> "", most_shaveds |-> {} ]

Top == stack[Len(stack)]

ReplaceTop(frame) == [stack EXCEPT ![Len(stack)] = frame]

\* Group.is_complete
is_complete == IncompleteImages(sinks, generator_chars, reps_to_sinks) = {}

\* What a finished construction is compared by: the error, or the number of
\* sinks and the completeness.
Result ==
    IF pc = "error" THEN << "MemoryError", 0, FALSE >>
    ELSE IF pc = "init_syntax_error" THEN << "SyntaxError", 0, FALSE >>
    ELSE << "ok", Cardinality(sinks), is_complete >>

NoResult == << "none", 0, FALSE >>

\* The object before __init__ has set its fields.
NoObject ==
    [ reps_to_sinks |-> EmptyDict, sinks |-> {}, prime_reductibles |-> {}, sink_cap |-> 0 ]

\* The state in which __init__ starts with arguments out of inputs.
InitWith(inputs) ==
    /\ \E inp \in inputs :
        /\ initial_reps_elements = inp.initial_reps_elements
        /\ sink_cap = inp.sink_cap
        /\ evaluate = inp.evaluate
    /\ reps_to_sinks = EmptyDict
    /\ sinks = {}
    /\ prime_reductibles = {}
    /\ generator_chars = {}
    /\ pc = "start"
    /\ rel_idx = 1
    /\ stack = << >>
    /\ sorted_prime_reductibles = << >>
    /\ pair = << 1, 1 >>
    /\ contractions = {}
    /\ run = 1
    /\ first_result = NoResult
    /\ call_reps = << >>
    /\ util_fn = "none"
    /\ util_args = << >>
    /\ util_out = {}
    /\ combine_calls = 0
    /\ before_call = NoObject
    /\ fill_calls = 0

Init == InitWith(Inputs)

\* ----------------------------------------------------------------- actions

\* __init__: self._integrate([""])
IntegrateIdentity ==
    /\ pc = "start"
    /\ stack' = << CallFrame(<< "" >>) >>
    /\ pc' = "relations"
    /\ UNCHANGED << inputVars, storeVars, generator_chars, rel_idx, combineVars, runVars, call_reps, utilVars >>

\* A mutation of the test below: only the first word is expanded before the
\* integration starts.
FirstExpands(reps) == ~expand_notation(reps[1]).raised

\* expanded_reps = [expand_notation(rep) for rep in reps] raises nothing
AllExpand(reps) == \A k \in 1..Len(reps) : ~expand_notation(reps[k]).raised

\* The list expanded_reps when nothing is raised.
Expanded(reps) == [ k \in 1..Len(reps) |-> expand_notation(reps[k]).expanded ]

\* __init__: for reps in initial_reps_elements: the words of the relation are
\* expanded, all of them before _integrate is called; SyntaxError leaves
\* __init__ at once.
IntegrateRelation ==
    /\ pc = "relations"
    /\ stack = << >>
    /\ rel_idx <= Len(initial_reps_elements)
    /\ LET reps == initial_reps_elements[rel_idx] IN
       IF AllExpand(reps)
       THEN /\ stack' = << CallFrame(Expanded(reps)) >>
            /\ rel_idx' = rel_idx + 1
            /\ pc' = pc
       ELSE /\ pc' = "init_syntax_error"
            /\ UNCHANGED << stack, rel_idx >>
    /\ UNCHANGED << inputVars, storeVars, generator_chars, combineVars, runVars, call_reps, utilVars >>

\* __init__: if evaluate: ...
EndOfRelations ==
    /\ pc = "relations"
    /\ stack = << >>
    /\ rel_idx > Len(initial_reps_elements)
    /\ pc' = IF evaluate THEN "combine" ELSE "done"
    /\ UNCHANGED << inputVars, storeVars, generator_chars, rel_idx, stack, combineVars, runVars, call_reps, utilVars >>

\* A mutation of the test below: the inverse rule is integrated for every new
\* character.
InverseAlwaysIntegrated(g_inverse, known) == TRUE

\* if g_inverse in self.generator_chars
InverseIsKnown(g_inverse, known) == g_inverse \in known

\* _update_generator_chars: one round of the loop over the characters; a new
\* character whose inverse is already a generator character has the inverse
\* relation integrated before the loop goes on.
UpdateGeneratorChar ==
    /\ stack # << >>
    /\ Top.kind = "update_generator_chars"
    /\ \E g \in Top.chars :
        LET rest == ReplaceTop([Top EXCEPT !.chars = @ \ {g}])
            \* g is one character of a word: the assertion of anti_cap holds
            g_inverse == anti_cap(g).result
        IN  IF g \in generator_chars
            THEN /\ stack' = rest
                 /\ UNCHANGED generator_chars
            ELSE /\ generator_chars' = generator_chars \cup {g}
                 /\ stack' = IF InverseIsKnown(g_inverse, generator_chars')
                             THEN Append(rest, CallFrame(<< g \o g_inverse, g_inverse \o g, "" >>))
                             ELSE rest
    /\ UNCHANGED << inputVars, storeVars, pc, rel_idx, combineVars, runVars, call_reps, utilVars >>

\* _integrate: the reachable representations and the most reduced of them
FindReachable ==
    /\ stack # << >>
    /\ Top.kind = "update_generator_chars"
    /\ Top.chars = {}
    /\ \E reachable \in find_all_reachable_representations(
                            Top.expanded_reps, reps_to_sinks, prime_reductibles) :
        stack' = ReplaceTop([Top EXCEPT !.kind = "set_entries",
                                        !.all_relevant_equivalent_reps = reachable,
                                        !.todo = reachable,
                                        !.most_reduced = MinByKey(reachable)])
    /\ UNCHANGED << inputVars, storeVars, generator_chars, pc, rel_idx, combineVars, runVars, call_reps, utilVars >>

\* _integrate: one round of the loop over all_relevant_equivalent_reps, up to
\* the shaved versions of rep; MemoryError ends the construction.
SetEntry ==
    /\ stack # << >>
    /\ Top.kind = "set_entries"
    /\ Top.most_shaveds = {}
    /\ \E rep \in Top.todo : \E out \in set_entry(Self, rep, Top.most_reduced) :
        /\ StoreBecomes(out.g)
        /\ IF out.raised
           THEN /\ pc' = IF pc = "call" THEN "call_error" ELSE "error"
                /\ stack' = << >>
           ELSE /\ pc' = pc
                /\ stack' = ReplaceTop(
                      [Top EXCEPT !.todo = @ \ {rep},
                                  !.rep = rep,
                                  !.most_shaveds =
                                      IF rep = Top.most_reduced THEN {}
                                      ELSE { most_shaved \in get_most_shaveds(rep, Top.most_reduced) :
                                               most_shaved[1] # rep }])
    /\ UNCHANGED << inputVars, generator_chars, rel_idx, combineVars, runVars, call_reps, utilVars >>

\* _integrate: self._integrate([rep_shaved, most_reduced_shaved])
IntegrateShaved ==
    /\ stack # << >>
    /\ Top.kind = "set_entries"
    /\ \E most_shaved \in Top.most_shaveds :
        stack' = Append(ReplaceTop([Top EXCEPT !.most_shaveds = @ \ {most_shaved}]),
                        CallFrame(<< most_shaved[1], most_shaved[2] >>))
    /\ UNCHANGED << inputVars, storeVars, generator_chars, pc, rel_idx, combineVars, runVars, call_reps, utilVars >>

\* _integrate: return most_reduced
ReturnMostReduced ==
    /\ stack # << >>
    /\ Top.kind = "set_entries"
    /\ Top.todo = {}
    /\ Top.most_shaveds = {}
    /\ stack' = SubSeq(stack, 1, Len(stack) - 1)
    /\ UNCHANGED << inputVars, storeVars, generator_chars, pc, rel_idx, combineVars, runVars, call_reps, utilVars >>

\* Where integrate_combined_prime_reductibles returns to: __init__ goes on
\* with fill_in_gaps, a call made on the constructed object is over.
AfterCombine == IF combine_calls = 0 THEN "fill" ELSE "combined"

\* integrate_combined_prime_reductibles: the test of the while loop and the
\* sorted copy of the prime reductibles
CombineBegin ==
    /\ pc = "combine"
    /\ IF is_complete
       THEN /\ pc' = AfterCombine
            /\ UNCHANGED combineVars
       ELSE LET sorted == SortedByKey(prime_reductibles) IN
            /\ pc' = "pairs"
            /\ sorted_prime_reductibles' = sorted
            /\ pair' = << 1, 1 >>
            /\ contractions' = IF sorted = << >> THEN {}
                               ELSE generate_contractions(sorted[1], sorted[1])
    /\ UNCHANGED << inputVars, storeVars, generator_chars, rel_idx, stack, runVars, call_reps, utilVars >>

\* integrate_combined_prime_reductibles: self._integrate((contraction,))
CombineIntegrate ==
    /\ pc = "pairs"
    /\ stack = << >>
    /\ \E contraction \in contractions :
        /\ contractions' = contractions \ {contraction}
        /\ stack' = << CallFrame(<< contraction >>) >>
    /\ UNCHANGED << inputVars, storeVars, generator_chars, pc, rel_idx,
                    sorted_prime_reductibles, pair, runVars, call_reps, utilVars >>

LastPair == << Len(sorted_prime_reductibles), Len(sorted_prime_reductibles) >>

\* integrate_combined_prime_reductibles: the next s1, s2 of the two for loops
CombineNextPair ==
    /\ pc = "pairs"
    /\ stack = << >>
    /\ contractions = {}
    /\ sorted_prime_reductibles # << >>
    /\ pair # LastPair
    /\ LET next == IF pair[2] < Len(sorted_prime_reductibles)
                   THEN << pair[1], pair[2] + 1 >>
                   ELSE << pair[1] + 1, pair[1] + 1 >>
       IN  /\ pair' = next
           /\ contractions' = generate_contractions(sorted_prime_reductibles[next[1]],
                                                    sorted_prime_reductibles[next[2]])
    /\ UNCHANGED << inputVars, storeVars, generator_chars, pc, rel_idx, stack,
                    sorted_prime_reductibles, runVars, call_reps, utilVars >>

\* A mutation of the test below: the break left out.
NoBreak(sorted, primes) == FALSE

\* Another mutation of the test below: the break taken after every pass.
BreakAfterOnePass(sorted, primes) == TRUE

\* set(sorted_prime_reductibles) == self.prime_reductibles
NoNewPrimes(sorted, primes) == { sorted[k] : k \in 1..Len(sorted) } = primes

\* integrate_combined_prime_reductibles: the break at the end of a pass
CombineEnd ==
    /\ pc = "pairs"
    /\ stack = << >>
    /\ contractions = {}
    /\ sorted_prime_reductibles = << >> \/ pair = LastPair
    /\ pc' = IF NoNewPrimes(sorted_prime_reductibles, prime_reductibles)
             THEN AfterCombine ELSE "combine"
    /\ UNCHANGED << inputVars, storeVars, generator_chars, rel_idx, stack, combineVars, runVars, call_reps, utilVars >>

\* fill_in_gaps: self._integrate((sink + g,)) for the first missing image
FillGap ==
    /\ pc = "fill"
    /\ stack = << >>
    /\ \E sink_and_g \in IncompleteImages(sinks, generator_chars, reps_to_sinks) :
        stack' = << CallFrame(<< sink_and_g[1] \o sink_and_g[2] >>) >>
    /\ UNCHANGED << inputVars, storeVars, generator_chars, pc, rel_idx, combineVars, runVars, call_reps, utilVars >>

\* Where fill_in_gaps returns to: the end of __init__, or the caller that
\* called it on the constructed object.
AfterFill == IF fill_calls = 0 THEN "done" ELSE "filled"

\* fill_in_gaps: no image is missing
FillDone ==
    /\ pc = "fill"
    /\ stack = << >>
    /\ is_complete
    /\ pc' = AfterFill
    /\ UNCHANGED << inputVars, storeVars, generator_chars, rel_idx, stack, combineVars, runVars, call_reps, utilVars >>

\* The same construction input is run a second time on a new object.
Rerun ==
    /\ pc \in { "done", "error", "init_syntax_error" }
    /\ run = 1
    /\ run' = 2
    /\ first_result' = Result
    /\ reps_to_sinks' = EmptyDict
    /\ sinks' = {}
    /\ prime_reductibles' = {}
    /\ generator_chars' = {}
    /\ pc' = "start"
    /\ rel_idx' = 1
    /\ stack' = << >>
    /\ sorted_prime_reductibles' = << >>
    /\ pair' = << 1, 1 >>
    /\ contractions' = {}
    /\ UNCHANGED << inputVars, call_reps, utilVars, combine_calls, before_call, fill_calls >>

Next ==
    \/ IntegrateIdentity
    \/ IntegrateRelation
    \/ EndOfRelations
    \/ UpdateGeneratorChar
    \/ FindReachable
    \/ SetEntry
    \/ IntegrateShaved
    \/ ReturnMostReduced
    \/ CombineBegin
    \/ CombineIntegrate
    \/ CombineNextPair
    \/ CombineEnd
    \/ FillGap
    \/ FillDone
    \/ Rerun

Spec == Init /\ [][Next]_vars

\* The construction is never suspended: some step is taken while one is enabled.
LiveSpec == Spec /\ WF_vars(Next)

\* ------------------------------------------------------------ Group.__call__

\* Words in the notation of the caller: with a power, with the identity e,
\* the inverse of a generator, a letter that [a-zA-Z] does not match, and two
\* that do not expand (the reserved E, a number with no letter before it).
CallWords == { "g2", "G", "e", "é", "gE", "2g" }

\* The arguments of __call__ that are tried: one word or two.
CallInputs == { << a >> : a \in CallWords } \cup (CallWords \X CallWords)

\* Two generators of order two and no relation between them: an infinite group.
TwoInvolutions == << <<"gg", "">>, <<"hh", "">> >>

\* The relation of scenario A in the notation of the caller, with a power
\* and the identity e.
CompressedRelation == << <<"g3", "e">> >>

\* A relation whose second word does not expand.
MalformedRelation == << <<"g", "gE">> >>

\* The objects that are called: the one of scenario A, given in expanded and
\* in compressed notation, the one of the relation whose words merge, and one
\* with no relation and no completion.  The construction of the infinite
\* group with a small cap and the one of the malformed relation fail and
\* leave no object to call.
CallConstructions ==
    { [initial_reps_elements |-> ScenarioA, sink_cap |-> DefaultSinkCap, evaluate |-> TRUE],
      [initial_reps_elements |-> CompressedRelation, sink_cap |-> DefaultSinkCap, evaluate |-> TRUE],
      [initial_reps_elements |-> MalformedRelation, sink_cap |-> DefaultSinkCap, evaluate |-> TRUE],
      [initial_reps_elements |-> MergingRelation, sink_cap |-> DefaultSinkCap, evaluate |-> TRUE],
      [initial_reps_elements |-> ScenarioC, sink_cap |-> DefaultSinkCap, evaluate |-> FALSE],
      [initial_reps_elements |-> TwoInvolutions, sink_cap |-> SmallCap, evaluate |-> TRUE] }

CallInit == InitWith(CallConstructions)

\* __call__: the words are expanded, all of them before _integrate is called;
\* SyntaxError leaves the call at once.
Call ==
    /\ pc \in { "done", "combined", "filled" }
    /\ call_reps = << >>
    /\ \E reps \in CallInputs :
        /\ call_reps' = reps
        /\ IF AllExpand(reps)
           THEN /\ pc' = "call"
                /\ stack' = << CallFrame(Expanded(reps)) >>
           ELSE /\ pc' = "syntax_error"
                /\ stack' = stack
    /\ UNCHANGED << inputVars, storeVars, generator_chars, rel_idx, combineVars, runVars, utilVars >>

\* __call__: _integrate has returned; the two print calls change nothing of
\* the object.
CallReturn ==
    /\ pc = "call"
    /\ stack = << >>
    /\ pc' = "called"
    /\ UNCHANGED << inputVars, storeVars, generator_chars, rel_idx, stack, combineVars, runVars,
                    call_reps, utilVars >>

\* The steps of a construction and of one call of the object it leaves.
CallNext ==
    \/ IntegrateIdentity
    \/ IntegrateRelation
    \/ EndOfRelations
    \/ UpdateGeneratorChar
    \/ FindReachable
    \/ SetEntry
    \/ IntegrateShaved
    \/ ReturnMostReduced
    \/ CombineBegin
    \/ CombineIntegrate
    \/ CombineNextPair
    \/ CombineEnd
    \/ FillGap
    \/ FillDone
    \/ Call
    \/ CallReturn

CallSpec == CallInit /\ [][CallNext]_vars

\* --------------------------------------------------- the functions of util.py

\* Longest word passed to a function of util.py.
MaxWordLen == 3

\* The words passed to the functions: those over g and its inverse.
UtilWords == WordsUpTo(MaxWordLen)

\* Three words are drawn; a function of two arguments takes the first two.  No
\* object is involved: the variables of the construction stay as they are
\* before one.
UtilInit ==
    /\ util_args \in UtilWords \X UtilWords \X UtilWords
    /\ util_fn = "none"
    /\ util_out = {}
    /\ initial_reps_elements = << >>
    /\ sink_cap = DefaultSinkCap
    /\ evaluate = FALSE
    /\ reps_to_sinks = EmptyDict
    /\ sinks = {}
    /\ prime_reductibles = {}
    /\ generator_chars = {}
    /\ pc = "start"
    /\ rel_idx = 1
    /\ stack = << >>
    /\ sorted_prime_reductibles = << >>
    /\ pair = << 1, 1 >>
    /\ contractions = {}
    /\ run = 1
    /\ first_result = NoResult
    /\ call_reps = << >>
    /\ combine_calls = 0
    /\ before_call = NoObject
    /\ fill_calls = 0

\* What a call of a function of util.py leaves alone.
UtilUnchanged ==
    UNCHANGED << inputVars, storeVars, generator_chars, pc, rel_idx, stack, combineVars,
                 runVars, call_reps, util_args >>

\* apply_rule_once(unreduced, reduced, s)
ApplyRuleOnce ==
    /\ util_fn = "none"
    /\ util_fn' = "apply_rule_once"
    /\ util_out' = apply_rule_once(util_args[1], util_args[2], util_args[3])
    /\ UtilUnchanged

\* get_most_shaveds(s1, s2)
GetMostShaveds ==
    /\ util_fn = "none"
    /\ util_fn' = "get_most_shaveds"
    /\ util_out' = get_most_shaveds(util_args[1], util_args[2])
    /\ UtilUnchanged

\* generate_contractions(s1, s2)
GenerateContractions ==
    /\ util_fn = "none"
    /\ util_fn' = "generate_contractions"
    /\ util_out' = generate_contractions(util_args[1], util_args[2])
    /\ UtilUnchanged

UtilNext == ApplyRuleOnce \/ GetMostShaveds \/ GenerateContractions

UtilSpec == UtilInit /\ [][UtilNext]_vars

\* ------------------------------------------------------------------ claims

\* The construction has ended, normally or with MemoryError.
Finished == pc \in { "done", "error", "init_syntax_error" }

\* No _integrate call is active and the object is usable: the state a caller
\* of a top-level _integrate call sees when it has returned.
AtRest == stack = << >> /\ pc \notin { "start", "error", "init_syntax_error" }

Keys == DOMAIN reps_to_sinks

\* C1: soundness: once the construction with completion has ended normally,
\* the expanded words of every relation of initial_reps_elements are keys of
\* the store with one and the same sink.
C1_Soundness ==
    (pc = "done" /\ evaluate) =>
        \A k \in 1..Len(initial_reps_elements) :
            \A i, j \in 1..Len(initial_reps_elements[k]) :
                LET a == Expanded(initial_reps_elements[k])[i]
                    b == Expanded(initial_reps_elements[k])[j]
                IN  /\ a \in Keys
                    /\ b \in Keys
                    /\ reps_to_sinks[a] = reps_to_sinks[b]

\* C2: whenever no _integrate call is active, the sinks are exactly the values
\* of the store and exactly the keys that map to themselves.
C2_SinksAreSelfMapped ==
    AtRest =>
        /\ sinks = { reps_to_sinks[r] : r \in Keys }
        /\ sinks = { r \in Keys : reps_to_sinks[r] = r }

\* C3: whenever is_complete() is true, every sink followed by every generator
\* character is a key of the store whose value is a member of sinks.
C3_Totality ==
    is_complete =>
        \A sink \in sinks : \A g \in generator_chars :
            /\ (sink \o g) \in Keys
            /\ reps_to_sinks[sink \o g] \in sinks

\* C3 witness: a completed structure of several sinks in which a generator
\* leads from one sink to another one.
C3_Witness ==
    /\ pc = "done"
    /\ is_complete
    /\ Cardinality(sinks) >= 3
    /\ \E sink \in sinks : \E g \in generator_chars :
        /\ (sink \o g) \in Keys
        /\ reps_to_sinks[sink \o g] \in sinks \ {sink}

\* C4: the construction ends, the first time and when it is run again; one
\* with completion ends complete or with MemoryError, and the one of a free
\* generator with cap 3 ends with MemoryError.
C4_Termination ==
    /\ <>(run = 2 /\ Finished)
    /\ []((pc = "done" /\ evaluate) => is_complete)
    /\ []((Finished /\ evaluate /\ initial_reps_elements = FreeGenerator
                /\ sink_cap = SmallCap)
            => pc = "error")

\* C4 witness: the construction of the free generator with cap 3 has raised
\* MemoryError.
C4_Witness ==
    /\ pc = "error"
    /\ evaluate
    /\ initial_reps_elements = FreeGenerator
    /\ sink_cap = SmallCap
    /\ Cardinality(sinks) > sink_cap

\* C5: as long as MemoryError has not been raised there are at most sink_cap
\* sinks.
C5_CapRespected == pc # "error" => Cardinality(sinks) <= sink_cap

\* C6: determinism: the second construction from the same input ends as the
\* first one did: the same error, or the same number of sinks and the same
\* completeness.
C6_Determinism == (run = 2 /\ Finished) => Result = first_result

\* C7: scenario B ends normally, complete, with exactly 4 sinks.
C7_ScenarioB ==
    (Finished /\ initial_reps_elements = ScenarioB) =>
        /\ pc = "done"
        /\ is_complete
        /\ Cardinality(sinks) = 4

\* C7 witness: the construction of scenario B has ended normally and has
\* sinks other than the empty word.
C7_Witness ==
    /\ pc = "done"
    /\ initial_reps_elements = ScenarioB
    /\ "ghgh" \in Keys
    /\ sinks # { "" }

\* C8: scenario A ends normally, complete, with exactly 3 sinks, and gggg has
\* the sink of g.
C8_ScenarioA ==
    (Finished /\ initial_reps_elements = ScenarioA) =>
        /\ pc = "done"
        /\ is_complete
        /\ Cardinality(sinks) = 3
        /\ "gggg" \in Keys
        /\ "g" \in Keys
        /\ reps_to_sinks["gggg"] = reps_to_sinks["g"]

\* C8 witness: the construction of scenario A has ended normally with gggg
\* and g among the keys of the store.
C8_Witness ==
    /\ pc = "done"
    /\ initial_reps_elements = ScenarioA
    /\ { "g", "gggg" } \subseteq Keys
    /\ "ggg" \in Keys

\* The number of inverse (upper-case) characters of a word.
InverseCount(w) == Cardinality({ i \in 1..Len(w) : ~islower(CharAt(w, i)) })

\* The order of the key (count of inverse characters, length, value).
InverseCountFirstLess(a, b) ==
    \/ InverseCount(a) < InverseCount(b)
    \/ InverseCount(a) = InverseCount(b) /\ Len(a) < Len(b)
    \/ InverseCount(a) = InverseCount(b) /\ Len(a) = Len(b) /\ StrLess(a, b)

\* The order of the key (length, value).
LengthFirstLess(a, b) ==
    \/ Len(a) < Len(b)
    \/ Len(a) = Len(b) /\ StrLess(a, b)

\* The frames of the _integrate calls that have picked their most reduced word.
PickedFrames == { k \in 1..Len(stack) : stack[k].kind = "set_entries" }

\* C9 as claimed: the most reduced word of every active _integrate call is
\* the least of its reachable set under the key (count of inverse characters,
\* length, value).
C9_InverseCountFirst ==
    \A k \in PickedFrames :
        \A w \in stack[k].all_relevant_equivalent_reps :
            ~InverseCountFirstLess(w, stack[k].most_reduced)

\* C9 amended: after every step, the most reduced word of every active
\* _integrate call is the least of its reachable set under the key (length,
\* value), whatever the inverse characters; and a sink that a step removes
\* from the sinks is superseded by a sink that is less under that key, to which
\* every word that referred to the removed sink now refers.
C9_LengthFirst ==
    [][ /\ \A k \in { i \in 1..Len(stack') : stack'[i].kind = "set_entries" } :
            /\ stack'[k].most_reduced \in stack'[k].all_relevant_equivalent_reps
            /\ \A w \in stack'[k].all_relevant_equivalent_reps :
                  ~LengthFirstLess(w, stack'[k].most_reduced)
        /\ run' = run =>
            \A old \in sinks \ sinks' :
                \E new \in sinks' :
                    /\ LengthFirstLess(new, old)
                    /\ \A r \in Keys : reps_to_sinks[r] = old => reps_to_sinks'[r] = new
      ]_vars

\* C9 witness: an _integrate call has picked a most reduced word to which the
\* key of the claim prefers another word of its reachable set, and a word of
\* that set has meanwhile been merged into a sink less than the picked word.
C9_Witness ==
    \E k \in PickedFrames :
        /\ \E w \in stack[k].all_relevant_equivalent_reps :
              InverseCountFirstLess(w, stack[k].most_reduced)
        /\ \E w \in stack[k].all_relevant_equivalent_reps \ stack[k].todo :
              /\ w \in Keys
              /\ LengthFirstLess(reps_to_sinks[w], stack[k].most_reduced)

\* The characters of the relations passed to _integrate so far.
CharsSupplied ==
    UNION { CharsOf(Expanded(initial_reps_elements[k])) :
            k \in { i \in 1..Len(initial_reps_elements) : i < rel_idx } }

\* C10 as claimed: whenever no _integrate call is active, every generator
\* character has its inverse registered as well, and the two products of the
\* character and its inverse are keys of the store mapped to the empty word.
C10_InverseRegistered ==
    AtRest =>
        \A g \in generator_chars :
            LET g_inverse == anti_cap(g).result IN
            /\ g_inverse \in generator_chars
            /\ (g \o g_inverse) \in Keys
            /\ (g_inverse \o g) \in Keys
            /\ reps_to_sinks[g \o g_inverse] = ""
            /\ reps_to_sinks[g_inverse \o g] = ""

\* C10 amended: whenever no _integrate call is active, the generator
\* characters are exactly the characters of the words supplied so far (the
\* inverse of a character is not registered with it), and for every generator
\* character whose inverse has been supplied as well the two products of the
\* character and its inverse are keys of the store mapped to the empty word.
C10_InverseRuleWhenBothSeen ==
    AtRest =>
        /\ generator_chars = CharsSupplied
        /\ \A g \in generator_chars :
            LET g_inverse == anti_cap(g).result IN
            g_inverse \in generator_chars =>
                /\ (g \o g_inverse) \in Keys
                /\ (g_inverse \o g) \in Keys
                /\ reps_to_sinks[g \o g_inverse] = ""
                /\ reps_to_sinks[g_inverse \o g] = ""

\* C10 witness: a character and its inverse have both been supplied, a word
\* that is neither of their products has been given a sink, and the products
\* are keys of the store mapped to the empty word.
C10_Witness ==
    /\ AtRest
    /\ \E g \in generator_chars :
        /\ anti_cap(g).result \in generator_chars
        /\ (g \o anti_cap(g).result) \in Keys
        /\ reps_to_sinks[g \o anti_cap(g).result] = ""
        /\ (g \o g) \in Keys

\* Some word of the arguments of __call__ does not expand.
Malformed(reps) == \E k \in 1..Len(reps) : expand_notation(reps[k]).raised

\* C11: a step that ends with a call whose arguments hold a malformed word
\* leaves reps_to_sinks, sinks, prime_reductibles and generator_chars as they
\* were, and the call has ended by SyntaxError with no _integrate call active.
C11_MalformedLeavesState ==
    [][ (call_reps' # << >> /\ Malformed(call_reps')) =>
            /\ UNCHANGED << reps_to_sinks, sinks, prime_reductibles, generator_chars >>
            /\ pc' = "syntax_error"
            /\ stack' = << >>
      ]_vars

\* C11 witness: an object of several sinks has been called with a word that
\* expands followed by a malformed one, and SyntaxError has been raised.
C11_Witness ==
    /\ pc = "syntax_error"
    /\ Len(call_reps) = 2
    /\ ~expand_notation(call_reps[1]).raised
    /\ expand_notation(call_reps[1]).expanded \notin Keys
    /\ expand_notation(call_reps[2]).raised
    /\ Cardinality(sinks) = 3

\* left occurs in word at position i (counted from 0), character by character.
OccursAt(left, word, i) ==
    /\ i + Len(left) <= Len(word)
    /\ \A k \in 1..Len(left) : CharAt(word, i + k) = CharAt(left, k)

\* C12: apply_rule_once(left, right, word) returns exactly the words
\* word[:i] + right + word[i+len(left):] for the positions i at which left
\* occurs in word, overlapping occurrences included, and the empty set when
\* left does not occur.
C12_ApplyRuleOnce ==
    util_fn = "apply_rule_once" =>
        LET left == util_args[1]
            right == util_args[2]
            word == util_args[3]
        IN  util_out = { SubSeq(word, 1, i) \o right \o SubSeq(word, i + Len(left) + 1, Len(word)) :
                         i \in { j \in 0..Len(word) : OccursAt(left, word, j) } }

\* C12 witness: the rule has been applied to a word in which its left side
\* occurs twice, the occurrences overlapping, with two different results.
C12_Witness ==
    /\ util_fn = "apply_rule_once"
    /\ Len(util_args[1]) = 2
    /\ OccursAt(util_args[1], util_args[3], 0)
    /\ OccursAt(util_args[1], util_args[3], 1)
    /\ Cardinality(util_out) = 2

\* The length of the longest common prefix of a and b.
CommonPrefixLen(a, b) ==
    CHOOSE k \in 0..Min2(Len(a), Len(b)) :
        /\ SubSeq(a, 1, k) = SubSeq(b, 1, k)
        /\ \A m \in (k + 1)..Min2(Len(a), Len(b)) : SubSeq(a, 1, m) # SubSeq(b, 1, m)

\* The length of the longest common suffix of a and b.
CommonSuffixLen(a, b) ==
    CHOOSE k \in 0..Min2(Len(a), Len(b)) :
        /\ SubSeq(a, Len(a) - k + 1, Len(a)) = SubSeq(b, Len(b) - k + 1, Len(b))
        /\ \A m \in (k + 1)..Min2(Len(a), Len(b)) :
              SubSeq(a, Len(a) - m + 1, Len(a)) # SubSeq(b, Len(b) - m + 1, Len(b))

\* The common prefix stripped first, then the common suffix of what is left.
PrefixThenSuffix(a, b) ==
    LET p == CommonPrefixLen(a, b)
        a1 == SubSeq(a, p + 1, Len(a))
        b1 == SubSeq(b, p + 1, Len(b))
        q == CommonSuffixLen(a1, b1)
    IN  << SubSeq(a1, 1, Len(a1) - q), SubSeq(b1, 1, Len(b1) - q) >>

\* The common suffix stripped first, then the common prefix of what is left.
SuffixThenPrefix(a, b) ==
    LET q == CommonSuffixLen(a, b)
        a1 == SubSeq(a, 1, Len(a) - q)
        b1 == SubSeq(b, 1, Len(b) - q)
        p == CommonPrefixLen(a1, b1)
    IN  << SubSeq(a1, p + 1, Len(a1)), SubSeq(b1, p + 1, Len(b1)) >>

\* C13: get_most_shaveds(a, b) returns exactly the set of the pair left by
\* stripping the common prefix and then the common suffix and the pair left by
\* stripping the common suffix and then the common prefix.
C13_BothShavingOrders ==
    util_fn = "get_most_shaveds" =>
        util_out = { PrefixThenSuffix(util_args[1], util_args[2]),
                     SuffixThenPrefix(util_args[1], util_args[2]) }

\* Every contraction of a and b with an overlap of one of the lengths.
ContractionsOfOverlaps(a, b, lengths) ==
    { a \o SubSeq(b, n + 1, Len(b)) :
        n \in { m \in lengths : SubSeq(a, Len(a) - m + 1, Len(a)) = SubSeq(b, 1, m) } }
    \cup
    { b \o SubSeq(a, n + 1, Len(a)) :
        n \in { m \in lengths : SubSeq(b, Len(b) - m + 1, Len(b)) = SubSeq(a, 1, m) } }

\* C14 as claimed: generate_contractions(a, b) returns the contractions of a
\* and b for every overlap length from 0 up to and including the length of
\* the shorter word, the concatenations a+b and b+a among them.
C14_OverlapsFromZero ==
    util_fn = "generate_contractions" =>
        LET a == util_args[1]
            b == util_args[2]
        IN  util_out = ContractionsOfOverlaps(a, b, 0..Min2(Len(a), Len(b)))

\* C14 amended: generate_contractions(a, b) returns the contractions of a and
\* b for every overlap length from 1 up to the length of the shorter word less
\* one: neither the concatenations a+b and b+a nor the contraction in which
\* the shorter word is overlapped as a whole are among them.
C14_ProperOverlaps ==
    util_fn = "generate_contractions" =>
        LET a == util_args[1]
            b == util_args[2]
        IN  util_out = ContractionsOfOverlaps(a, b, 1..(Min2(Len(a), Len(b)) - 1))

\* C14 witness: two different words of which the shorter one is a suffix of
\* the other have been contracted, and the result holds a contraction but
\* neither a concatenation nor the longer word (the overlap of the whole
\* shorter word).
C14_Witness ==
    /\ util_fn = "generate_contractions"
    /\ Len(util_args[1]) > Len(util_args[2])
    /\ Len(util_args[2]) > 1
    /\ SubSeq(util_args[1], Len(util_args[1]) - Len(util_args[2]) + 1, Len(util_args[1])) = util_args[2]
    /\ util_out # {}
    /\ (util_args[1] \o util_args[2]) \notin util_out
    /\ util_args[1] \notin util_out

\* This step is the round of the loop of the innermost _integrate call that
\* calls _set_entry(rep, most_reduced) and returns from it.
SetEntryStepOn(rep) ==
    /\ stack # << >>
    /\ Top.kind = "set_entries"
    /\ Top.most_shaveds = {}
    /\ rep \in Top.todo
    /\ Len(stack') = Len(stack)
    /\ stack'[Len(stack)].todo = Top.todo \ {rep}
    /\ stack'[Len(stack)].rep = rep

\* C15: when _set_entry(word, c) finds word mapped to a value k other than c,
\* then on return no entry of the store has the larger of k and c under
\* (length, value) as its value, the larger is no member of sinks and the
\* smaller is one.
C15_MergeKeepsSmaller ==
    [][ \A word \in Keys :
            (SetEntryStepOn(word) /\ reps_to_sinks[word] # Top.most_reduced) =>
                LET k == reps_to_sinks[word]
                    c == Top.most_reduced
                    smaller == IF LengthFirstLess(k, c) THEN k ELSE c
                    larger == IF LengthFirstLess(k, c) THEN c ELSE k
                IN  /\ \A r \in DOMAIN reps_to_sinks' : reps_to_sinks'[r] # larger
                    /\ larger \notin sinks'
                    /\ smaller \in sinks'
      ]_vars

\* C15 witness: the last round of the loop of the innermost _integrate call
\* has called _set_entry on the most reduced word itself, which a nested call
\* had mapped to a smaller word meanwhile: the two have been merged, the most
\* reduced word of the call is no sink any more and another word of the
\* relation has been mapped to the survivor.
C15_Witness ==
    /\ stack # << >>
    /\ Top.kind = "set_entries"
    /\ Top.rep = Top.most_reduced
    /\ Top.rep \notin Top.todo
    /\ Top.rep \in Keys
    /\ reps_to_sinks[Top.rep] # Top.rep
    /\ Top.rep \notin sinks
    /\ reps_to_sinks[Top.rep] \in sinks
    /\ \E r \in (Top.all_relevant_equivalent_reps \ Top.todo) \ {Top.rep} :
          r \in Keys /\ reps_to_sinks[r] = reps_to_sinks[Top.rep]

\* The square of h is hg, so that h and g are the same element, and then hg
\* times the inverse of g is the identity: the rule of h changes after it has
\* been used to derive another one.
GeneratorsMerged == << <<"hh", "hg">>, <<"", "hgG">> >>

\* The constructions that are followed for the prime reductibles: those above,
\* the one that finds the square before the generator, and the one whose
\* generators merge, without completion.
PrimeConstructions ==
    CallConstructions \cup
    { [initial_reps_elements |-> SquareThenGenerator, sink_cap |-> DefaultSinkCap,
       evaluate |-> TRUE],
      [initial_reps_elements |-> GeneratorsMerged, sink_cap |-> DefaultSinkCap,
       evaluate |-> FALSE] }

PrimeInit == InitWith(PrimeConstructions)

PrimeSpec == PrimeInit /\ [][Next]_vars

\* C16: whenever no _integrate call is active, every prime reductible is a
\* key of the store and, for at least one order in which the reachability
\* search can iterate over its sets, its value is not in the set the search
\* reaches from it with the other prime reductibles.
C16_NoPrimeDerivable ==
    AtRest =>
        /\ prime_reductibles \subseteq Keys
        /\ \A p \in prime_reductibles : TRUE \in should_be_prime_reductible(Self, p)

\* The rules of the prime reductibles: the dict that maps each to its value.
PrimeRules == [ prime \in prime_reductibles |-> reps_to_sinks[prime] ]

\* C17: whenever no _integrate call is active, the value of every key that is
\* not a sink is in the set that the reachability search reaches from the key
\* with the prime reductibles alone, for at least one order in which the
\* search can iterate over its sets.
C17_PrimesSuffice ==
    AtRest =>
        /\ prime_reductibles \subseteq Keys
        /\ \A w \in Keys \ sinks :
              \E reachable \in find_all_reachable_representations(<<w>>, PrimeRules,
                                                                 prime_reductibles) :
                  reps_to_sinks[w] \in reachable

\* The value of every key is not larger than the key, and the value of every
\* prime reductible is a key's value strictly smaller than it.
RulesDecrease ==
    /\ \A w \in Keys : ~KeyLess(INTEGRATE_KEY(w), INTEGRATE_KEY(reps_to_sinks[w]))
    /\ \A p \in prime_reductibles :
          p \in Keys /\ KeyLess(INTEGRATE_KEY(reps_to_sinks[p]), INTEGRATE_KEY(p))

\* C18: in every reachable state the value of every key is not larger than
\* the key under the ordering of INTEGRATE_KEY, and every prime reductible is
\* a key that is not in sinks and whose value is strictly smaller than it.
C18_RulesRewriteDownward ==
    /\ RulesDecrease
    /\ prime_reductibles \cap sinks = {}

\* The innermost _integrate call is at its return statement.
AtReturn ==
    /\ stack # << >>
    /\ Top.kind = "set_entries"
    /\ Top.todo = {}
    /\ Top.most_shaveds = {}

\* C19: when an _integrate call returns, the word it returns is in sinks, is
\* a key that maps to itself, and is the value of every word it was given.
C19_ReturnsCanonicalForm ==
    AtReturn =>
        /\ Top.most_reduced \in sinks
        /\ Top.most_reduced \in Keys
        /\ reps_to_sinks[Top.most_reduced] = Top.most_reduced
        /\ \A i \in 1..Len(Top.expanded_reps) :
              /\ Top.expanded_reps[i] \in Keys
              /\ reps_to_sinks[Top.expanded_reps[i]] = Top.most_reduced

\* ------------------------------ integrate_combined_prime_reductibles, called

\* How many times the method is called on one object.
MaxCalls == 2

\* The generator h is the square of the generator g, and neither has an
\* inverse: the first pass over the pairs of prime reductibles finds a new one.
SquareIsGenerator == << <<"h", "gg">> >>

\* The objects the method is called on: those of the generated relations, of
\* scenario A, of the relation whose words merge, of the two involutions and
\* of the square that is a generator, constructed without completion, and
\* that of scenario A constructed with it.
\* The construction of the two involutions with a small cap fails and leaves
\* no object.
CombineConstructions ==
    { [initial_reps_elements |-> << r >>, sink_cap |-> DefaultSinkCap, evaluate |-> FALSE] :
        r \in GeneratedRelations }
    \cup
    { [initial_reps_elements |-> rs, sink_cap |-> DefaultSinkCap, evaluate |-> FALSE] :
        rs \in { ScenarioA, MergingRelation, TwoInvolutions, SquareIsGenerator } }
    \cup
    { [initial_reps_elements |-> ScenarioA, sink_cap |-> DefaultSinkCap, evaluate |-> TRUE],
      [initial_reps_elements |-> TwoInvolutions, sink_cap |-> SmallCap, evaluate |-> TRUE] }

CombineInit == InitWith(CombineConstructions)

\* self.integrate_combined_prime_reductibles() on the constructed object, or
\* once more when a call made on it has returned
CombineCall ==
    /\ pc \in { "done", "combined", "filled" }
    /\ stack = << >>
    /\ combine_calls < MaxCalls
    /\ combine_calls' = combine_calls + 1
    /\ before_call' = Self
    /\ pc' = "combine"
    /\ UNCHANGED << inputVars, storeVars, generator_chars, rel_idx, stack, combineVars,
                    run, first_result, fill_calls, call_reps, utilVars >>

\* The steps of a construction and of the calls of the method on the object
\* it leaves.
CombineNext ==
    \/ IntegrateIdentity
    \/ IntegrateRelation
    \/ EndOfRelations
    \/ UpdateGeneratorChar
    \/ FindReachable
    \/ SetEntry
    \/ IntegrateShaved
    \/ ReturnMostReduced
    \/ CombineBegin
    \/ CombineIntegrate
    \/ CombineNextPair
    \/ CombineEnd
    \/ FillGap
    \/ FillDone
    \/ CombineCall

CombineSpec == CombineInit /\ [][CombineNext]_vars

\* The relation of a group of two elements, g^2 = e.
Involution == << <<"gg", "">> >>

\* The objects fill_in_gaps is called on, besides those of Inputs: those of
\* the involution, of scenario A, of scenario B and of the relation whose
\* words merge, constructed without completion; with a small cap the call on
\* that of the two involutions fails.
FillConstructions ==
    Inputs
    \cup
    { [initial_reps_elements |-> rs, sink_cap |-> DefaultSinkCap, evaluate |-> FALSE] :
        rs \in { Involution, ScenarioA, ScenarioB, MergingRelation } }
    \cup
    { [initial_reps_elements |-> TwoInvolutions, sink_cap |-> SmallCap, evaluate |-> FALSE] }

FillInit == InitWith(FillConstructions)

\* self.fill_in_gaps() on the constructed object, or once more when a call
\* made on it has returned
FillCall ==
    /\ pc \in { "done", "combined", "filled" }
    /\ stack = << >>
    /\ fill_calls < MaxCalls
    /\ fill_calls' = fill_calls + 1
    /\ pc' = "fill"
    /\ UNCHANGED << inputVars, storeVars, generator_chars, rel_idx, stack, combineVars,
                    run, first_result, combine_calls, before_call, call_reps, utilVars >>

\* The steps of a construction and of the calls of fill_in_gaps and of
\* integrate_combined_prime_reductibles on the object it leaves.
FillNext ==
    \/ IntegrateIdentity
    \/ IntegrateRelation
    \/ EndOfRelations
    \/ UpdateGeneratorChar
    \/ FindReachable
    \/ SetEntry
    \/ IntegrateShaved
    \/ ReturnMostReduced
    \/ CombineBegin
    \/ CombineIntegrate
    \/ CombineNextPair
    \/ CombineEnd
    \/ FillGap
    \/ FillDone
    \/ CombineCall
    \/ FillCall

FillSpec == FillInit /\ [][FillNext]_vars

\* Every contraction of every pair of prime reductibles is a key.
ContractionsAreKeys ==
    \A s1 \in prime_reductibles : \A s2 \in prime_reductibles :
        generate_contractions(s1, s2) \subseteq Keys

\* C20: when a call of integrate_combined_prime_reductibles on the
\* constructed object has returned, the object is complete or every
\* contraction of every pair of prime reductibles is a key; and when the call
\* was not the first, reps_to_sinks, sinks and prime_reductibles are what they
\* were when it started.
C20_FixedPoint ==
    pc = "combined" =>
        /\ is_complete \/ ContractionsAreKeys
        /\ combine_calls > 1 => Self = before_call

\* A call that was not the first has returned from an object that is not
\* complete: it has made a pass over the pairs of the prime reductibles, two
\* of which have a contraction.
C20_Witness ==
    /\ pc = "combined"
    /\ combine_calls > 1
    /\ ~is_complete
    /\ prime_reductibles # {}
    /\ sorted_prime_reductibles = SortedByKey(prime_reductibles)
    /\ \E s1 \in prime_reductibles : \E s2 \in prime_reductibles \ {s1} :
          generate_contractions(s1, s2) # {}

====
